---- MODULE Spec2Model ----
(***************************************************************************)
(* Model of wcpredictor/src/tournament.py: the Group class (result table,  *)
(* default standings, qualifiers) and the Tournament class (group stage,   *)
(* knockout stages over the alias table, furthest-position query).         *)
(*                                                                         *)
(* numpy arrays are sequences: a (N, S) array is a sequence of N rows,     *)
(* each a sequence over the samples 1..S.  Python's 0-based indices are    *)
(* kept as values (what lexsort returns) and converted where they index a  *)
(* sequence.  None is the empty tuple, a present value x is <<x>>.         *)
(***************************************************************************)
EXTENDS Integers, Sequences, FiniteSets, TLC

\* ---------------------------------------------------------------- bounds
NumSamples == 2
MaxGoals == 2
MaxSeed == 1
MaxRng == 0
MaxGroupSeed == 5
MaxGroupRng == 1
MaxCalls == 2

Samples == 1..NumSamples
\* seeds and generator states of the tournament's calls
Seeds == 0..MaxSeed
RngStates == 0..MaxRng
\* seeds and generator states of the calls made directly on one group
GroupSeeds == 0..MaxGroupSeed
GroupRngStates == 0..MaxGroupRng

None == <<>>
Some(x) == <<x>>
Get(o) == o[1]

\* A sequence with its elements computed (an array holds values, not thunks).
Array(f) == f \o <<>>

\* "x = v; F(x)": F applied to the value of v, computed once.
With(v, F(_)) == CHOOSE r \in {F(x) : x \in {v}} : TRUE

\* ------------------------------------------------- reference data (external)
\* teams_df: eight groups of four teams; fixtures_df: rows {Stage, Team_1, Team_2}.
GroupNames == <<"A", "B", "C", "D", "E", "F", "G", "H">>
GroupSet == {GroupNames[i] : i \in 1..Len(GroupNames)}
GroupIndex(g) == CHOOSE i \in 1..Len(GroupNames) : GroupNames[i] = g
TeamsOf(g) == <<g \o "1", g \o "2", g \o "3", g \o "4">>
AllTeams == {TeamsOf(g)[j] : g \in GroupSet, j \in 1..Len(TeamsOf("A"))}

\* The pairings of one group in round r (0..2), match m (0..1), as team indices.
Pairing(r, m) ==
    CASE r = 0 /\ m = 0 -> <<1, 2>>
      [] r = 0 /\ m = 1 -> <<3, 4>>
      [] r = 1 /\ m = 0 -> <<1, 3>>
      [] r = 1 /\ m = 1 -> <<4, 2>>
      [] r = 2 /\ m = 0 -> <<4, 1>>
      [] r = 2 /\ m = 1 -> <<2, 3>>

\* Group-stage rows of fixtures_df, round by round, the groups interleaved.
GroupFixtures ==
    [i \in 1..(6 * Len(GroupNames)) |->
        LET r == (i - 1) \div (2 * Len(GroupNames))
            w == (i - 1) % (2 * Len(GroupNames))
            g == GroupNames[(w \div 2) + 1]
            p == Pairing(r, w % 2)
        IN  [Stage |-> "Group", Team_1 |-> TeamsOf(g)[p[1]], Team_2 |-> TeamsOf(g)[p[2]]]]

\* Knockout rows of fixtures_df: the slots of a stage are the concatenated
\* slot names of the fixtures that feed them.
KnockoutFixtures(stage) ==
    CASE stage = "R16" ->
            << <<"1A", "2B">>, <<"1C", "2D">>, <<"1E", "2F">>, <<"1G", "2H">>,
               <<"1B", "2A">>, <<"1D", "2C">>, <<"1F", "2E">>, <<"1H", "2G">> >>
      [] stage = "QF" ->
            << <<"1A2B", "1C2D">>, <<"1E2F", "1G2H">>,
               <<"1B2A", "1D2C">>, <<"1F2E", "1H2G">> >>
      [] stage = "SF" ->
            << <<"1A2B1C2D", "1E2F1G2H">>, <<"1B2A1D2C", "1F2E1H2G">> >>
      [] stage = "F" ->
            << <<"1A2B1C2D1E2F1G2H", "1B2A1D2C1F2E1H2G">> >>

\* --------------------------------------------- outcome predictor (external)
\* A pure function of its inputs and the seed: one score per fixture and sample.
Mix(seed, i, s, side) ==
    (((seed + 2) * (i + 3 * s + 5 * side) + seed * seed + i * i) % 13) % (MaxGoals + 1)

simulate_score(team_1, team_2, seed, num_samples) ==
    [home_team |-> team_1,
     away_team |-> team_2,
     home_score |-> Array([i \in 1..Len(team_1) |->
                        Array([s \in 1..num_samples |-> Mix(seed, i, s, 0)])]),
     away_score |-> Array([i \in 1..Len(team_1) |->
                        Array([s \in 1..num_samples |-> Mix(seed, i, s, 1)])])]

\* One winner per input pair, at the index of the pair.
simulate_outcome(team_1, team_2, seed) ==
    Array([k \in 1..Len(team_1) |->
        IF ((seed + 1) * k + (k \div 3) + seed * seed) % 2 = 0 THEN team_1[k] ELSE team_2[k]])

\* ------------------------------------------------------------------ state
VARIABLES
    group_order,   \* iteration order of self.groups (list(set(...)))
    results,       \* Group.results, per group
    table,         \* Group.table, per group
    standings,     \* Group.standings, per group
    aliases,       \* Tournament.aliases: column name -> per-sample teams
    is_complete,   \* Tournament.is_complete
    winner,        \* Tournament.winner
    pc,            \* position inside play_knockout_stages
    ko_seed,       \* the seed argument of the play_knockout_stages in progress
    calls,         \* number of orchestration calls made so far
    last,          \* the last call: [op, g, head_to_head, team]
    fault,         \* the exception the last call ended in, "none" if it returned
    qualifiers,    \* return value of the last get_qualifiers
    furthest,      \* return value of the last get_furthest_position_for_team
    cascade        \* the last set_positions_using_metric call: arguments, depth

vars == <<group_order, results, table, standings, aliases, is_complete, winner,
          pc, ko_seed, calls, last, fault, qualifiers, furthest, cascade>>

groupVars == <<results, table, standings>>
tournamentVars == <<aliases, is_complete, winner, pc, ko_seed, calls>>

Reverse(seq) == [i \in 1..Len(seq) |-> seq[Len(seq) + 1 - i]]
GroupOrders == {GroupNames, Reverse(GroupNames)}

\* Group.__init__ for every group, then Tournament.__init__.
Init ==
    /\ group_order \in GroupOrders
    /\ results = [g \in GroupSet |-> None]
    /\ table = [g \in GroupSet |-> None]
    /\ standings = [g \in GroupSet |-> None]
    /\ aliases = <<>>
    /\ is_complete = FALSE
    /\ winner = None
    /\ pc = "idle"
    /\ ko_seed = 0
    /\ calls = 0
    /\ last = [op |-> "init", g |-> "", head_to_head |-> FALSE, team |-> ""]
    /\ fault = "none"
    /\ qualifiers = None
    /\ furthest = ""
    /\ cascade = None

\* ---------------------------------------------------------------- helpers
RECURSIVE Masked(_, _)
\* arr[mask]: the rows of arr whose mask entry is true, in order.
Masked(arr, mask) ==
    IF arr = <<>> THEN <<>>
    ELSE (IF Head(mask) THEN <<Head(arr)>> ELSE <<>>) \o Masked(Tail(arr), Tail(mask))

RECURSIVE ColumnSum(_, _)
\* rows.sum(axis=0)[s]
ColumnSum(rows, s) ==
    IF rows = <<>> THEN 0 ELSE Head(rows)[s] + ColumnSum(Tail(rows), s)

Range(seq) == {seq[i] : i \in 1..Len(seq)}

\* rows.sum(axis=0)
SumAxis0(rows) == Array([s \in Samples |-> ColumnSum(rows, s)])

\* element-wise a + b and a - b of two per-sample rows
Plus(a, b) == Array([s \in 1..Len(a) |-> a[s] + b[s]])
Minus(a, b) == Array([s \in 1..Len(a) |-> a[s] - b[s]])

\* ------------------------------------------------------------ Group.add_results
add_results(g, res) ==
    With(Array([i \in 1..Len(res.home_team) |-> res.home_team[i] \in Range(TeamsOf(g))]),
         LAMBDA group_mask :
            [home_team |-> Masked(res.home_team, group_mask),
             away_team |-> Masked(res.away_team, group_mask),
             home_score |-> Masked(res.home_score, group_mask),
             away_score |-> Masked(res.away_score, group_mask)])

\* ------------------------------------------------------------ Group.calc_table
\* home_pts without "home_pts[draw] = 1"
home_pts_no_draw(res) ==
    Array([i \in 1..Len(res.home_score) |-> Array([s \in Samples |->
        3 * (IF res.home_score[i][s] > res.away_score[i][s] THEN 1 ELSE 0)])])

home_pts(res) ==
    Array([i \in 1..Len(res.home_score) |-> Array([s \in Samples |->
        IF res.home_score[i][s] = res.away_score[i][s] THEN 1
        ELSE 3 * (IF res.home_score[i][s] > res.away_score[i][s] THEN 1 ELSE 0)])])

away_pts(res) ==
    Array([i \in 1..Len(res.home_score) |-> Array([s \in Samples |->
        IF res.home_score[i][s] = res.away_score[i][s] THEN 1
        ELSE 3 * (IF res.home_score[i][s] < res.away_score[i][s] THEN 1 ELSE 0)])])

\* goal_difference with the operator mistyped
goal_difference_sum(goals_for, goals_against) == Plus(goals_for, goals_against)

\* table["goal_difference"][team_idx, :]
goal_difference(goals_for, goals_against) == Minus(goals_for, goals_against)

\* The body of "for team_idx, team in enumerate(self.teams)": the team's four rows.
TeamRows(res, hp, ap, team) ==
    LET team_home_idx == Array([i \in 1..Len(res.home_team) |-> res.home_team[i] = team])
        team_home_pts == SumAxis0(Masked(hp, team_home_idx))
        team_home_goals_for == SumAxis0(Masked(res.home_score, team_home_idx))
        team_home_goals_against == SumAxis0(Masked(res.away_score, team_home_idx))
        team_away_idx == Array([i \in 1..Len(res.away_team) |-> res.away_team[i] = team])
        team_away_pts == SumAxis0(Masked(ap, team_away_idx))
        team_away_goals_for == SumAxis0(Masked(res.away_score, team_away_idx))
        team_away_goals_against == SumAxis0(Masked(res.home_score, team_away_idx))
    IN  With(Plus(team_home_goals_for, team_away_goals_for), LAMBDA gf :
        With(Plus(team_home_goals_against, team_away_goals_against), LAMBDA ga :
            [points |-> Plus(team_home_pts, team_away_pts),
             goals_for |-> gf,
             goals_against |-> ga,
             goal_difference |-> goal_difference(gf, ga)]))

calc_table(g, res) ==
    With(home_pts(res), LAMBDA hp :
    With(away_pts(res), LAMBDA ap :
    With(Array([t \in 1..Len(TeamsOf(g)) |-> TeamRows(res, hp, ap, TeamsOf(g)[t])]),
         LAMBDA rows :
            [points |-> Array([t \in 1..Len(rows) |-> rows[t].points]),
             goals_for |-> Array([t \in 1..Len(rows) |-> rows[t].goals_for]),
             goals_against |-> Array([t \in 1..Len(rows) |-> rows[t].goals_against]),
             goal_difference |-> Array([t \in 1..Len(rows) |-> rows[t].goal_difference])])))

\* -------------------------------------------------------- Group.calc_standings
\* np.random.random(size=shape): one key per team and sample, distinct within a
\* sample; rng stands for the state of numpy's generator.
random(rng, g) ==
    Array([i \in 1..Len(TeamsOf(g)) |-> Array([s \in Samples |->
        LET x == rng + s + GroupIndex(g)
        IN  ((1 + (x % 4)) * i + (x \div 4)) % 5])])

\* The order np.lexsort sorts by, last key first; equal keys keep index order.
KeyLess(tbl, rnd, s, i, j) ==
    \/ tbl.points[i][s] < tbl.points[j][s]
    \/ /\ tbl.points[i][s] = tbl.points[j][s]
       /\ \/ tbl.goal_difference[i][s] < tbl.goal_difference[j][s]
          \/ /\ tbl.goal_difference[i][s] = tbl.goal_difference[j][s]
             /\ \/ tbl.goals_for[i][s] < tbl.goals_for[j][s]
                \/ /\ tbl.goals_for[i][s] = tbl.goals_for[j][s]
                   /\ \/ rnd[i][s] < rnd[j][s]
                      \/ rnd[i][s] = rnd[j][s] /\ i < j

\* np.lexsort(keys, axis=0): entry [k][s] is the 0-based index of the team that
\* comes k-th in ascending order in sample s.
lexsort(tbl, rnd) ==
    Array([k \in 1..Len(tbl.points) |-> Array([s \in Samples |->
        (CHOOSE i \in 1..Len(tbl.points) :
            Cardinality({j \in 1..Len(tbl.points) : KeyLess(tbl, rnd, s, j, i)}) = k - 1)
        - 1])])

\* standings counted from 0: len(self.teams) - 1 - np.lexsort(...)
default_standings_from_zero(g, tbl, rnd) ==
    With(lexsort(tbl, rnd), LAMBDA idx :
        Array([k \in 1..Len(idx) |-> Array([s \in Samples |->
            Len(TeamsOf(g)) - 1 - idx[k][s]])]))

\* len(self.teams) - np.lexsort(...)
default_standings(g, tbl, rnd) ==
    With(lexsort(tbl, rnd), LAMBDA idx :
        Array([k \in 1..Len(idx) |-> Array([s \in Samples |->
            Len(TeamsOf(g)) - idx[k][s]])]))

\* calc_table as a call on the group state gs = [results, table, standings]:
\* subscripting results that are None is a TypeError.
CallCalcTable(g, gs) ==
    IF gs.results = None
    THEN [gs |-> gs, fault |-> "TypeError"]
    ELSE [gs |-> [gs EXCEPT !.table = Some(calc_table(g, Get(gs.results)))],
          fault |-> "none"]

\* calc_standings that ignores head_to_head and applies the default policy
calc_standings_fallback(g, gs, head_to_head, rng) ==
    With(IF gs.table = None THEN CallCalcTable(g, gs) ELSE [gs |-> gs, fault |-> "none"],
         LAMBDA t :
            IF t.fault # "none" THEN t
            ELSE With(random(rng, g), LAMBDA rnd :
                    [gs |-> [t.gs EXCEPT !.standings =
                                Some(default_standings(g, Get(t.gs.table), rnd))],
                     fault |-> "none"]))

calc_standings(g, gs, head_to_head, rng) ==
    With(IF gs.table = None THEN CallCalcTable(g, gs) ELSE [gs |-> gs, fault |-> "none"],
         LAMBDA t :
            IF t.fault # "none" THEN t
            ELSE IF ~head_to_head
            THEN With(random(rng, g), LAMBDA rnd :
                    [gs |-> [t.gs EXCEPT !.standings =
                                Some(default_standings(g, Get(t.gs.table), rnd))],
                     fault |-> "none"])
            ELSE [gs |-> t.gs, fault |-> "NotImplementedError"])

\* ------------------------------------------------------- Group.get_qualifiers
\* np.nonzero(standings.T == p)[1]: per sample, the 0-based row holding p.
RowsHolding(st, p) ==
    Array([s \in Samples |-> (CHOOSE k \in 1..Len(st) : st[k][s] = p) - 1])

get_qualifiers(g, gs, rng) ==
    With(IF gs.standings = None THEN calc_standings(g, gs, FALSE, rng)
                                ELSE [gs |-> gs, fault |-> "none"],
         LAMBDA c :
            IF c.fault # "none" THEN [gs |-> c.gs, fault |-> c.fault, ret |-> None]
            ELSE With(RowsHolding(Get(c.gs.standings), 1), LAMBDA first :
                 With(RowsHolding(Get(c.gs.standings), 2), LAMBDA second :
                    [gs |-> c.gs, fault |-> "none",
                     ret |-> Some(<<Array([s \in Samples |-> TeamsOf(g)[first[s] + 1]]),
                                    Array([s \in Samples |-> TeamsOf(g)[second[s] + 1]])>>)])))

\* ------------------------------------- Group.set_positions_using_metric
\* self.metrics: order of criteria for deciding group order
metrics == <<"points", "goal_difference", "goals_for", "head-to-head", "random">>

Max(a, b) == IF a >= b THEN a ELSE b

\* The outcome of a call: the group state it leaves, the exception it ended
\* in, and the deepest nesting of set_positions_using_metric calls it reached.
Outcome(gs, f, depth) == [gs |-> gs, fault |-> f, depth |-> depth]

\* The statements after a call: skipped when the call raised.
Then(r, F(_)) ==
    IF r.fault # "none" THEN r
    ELSE With(F(r.gs), LAMBDA q : [q EXCEPT !.depth = Max(r.depth, q.depth)])

\* fill_standings_position: "if self.standings[position]" is evaluated on the
\* standings the group holds, which are None (not subscriptable) or the
\* array of calc_standings (no string index), so the subscript raises before
\* the 'already filled' test and the assignment are reached.
fill_standings_position(gs, team, position) ==
    IF gs.standings = None THEN [gs |-> gs, fault |-> "TypeError"]
    ELSE [gs |-> gs, fault |-> "IndexError"]

\* fill_standings_position(teams[i], positions[i]) for i = from, from + 1, ...
RECURSIVE fill_positions(_, _, _, _, _)
fill_positions(gs, teams, positions, from, depth) ==
    IF from > Len(positions) THEN Outcome(gs, "none", depth)
    ELSE With(fill_standings_position(gs, teams[from], positions[from]), LAMBDA r :
            IF r.fault # "none" THEN Outcome(r.gs, r.fault, depth)
            ELSE fill_positions(r.gs, teams, positions, from + 1, depth))

\* find_head_to_head_winner: "for result in self.results" needs an iterable
\* (None raises TypeError); over the dict of add_results it yields the keys,
\* strings, and result.keys() raises AttributeError.
find_head_to_head_winner(gs, team_A, team_B) ==
    IF gs.results = None
    THEN [fault |-> "TypeError", team_1 |-> None, team_2 |-> None]
    ELSE [fault |-> "AttributeError", team_1 |-> None, team_2 |-> None]

\* random.shuffle(teams_to_sort)
shuffle(seq, rng) ==
    Array([i \in 1..Len(seq) |-> seq[((i - 1 + rng) % Len(seq)) + 1]])

\* team_dict = {t: self.table[t] for t in teams_to_sort}
team_dict(gs, teams_to_sort) ==
    IF gs.table = None THEN [fault |-> "TypeError", items |-> <<>>]
    ELSE IF \E i \in 1..Len(teams_to_sort) : teams_to_sort[i] \notin DOMAIN Get(gs.table)
    THEN [fault |-> "KeyError", items |-> <<>>]
    ELSE [fault |-> "none",
          items |-> Array([i \in 1..Len(teams_to_sort) |->
                        [team |-> teams_to_sort[i],
                         entry |-> Get(gs.table)[teams_to_sort[i]]]])]

\* utils.sort_teams_by: the teams with their table entries, greatest value of
\* the metric first, equal values in the order given.
sort_teams_by(items, metric) ==
    LET before(i, j) == \/ items[i].entry[metric] > items[j].entry[metric]
                        \/ items[i].entry[metric] = items[j].entry[metric] /\ i < j
        place(i) == 1 + Cardinality({j \in 1..Len(items) : before(j, i)})
    IN  Array([k \in 1..Len(items) |-> items[CHOOSE i \in 1..Len(items) : place(i) = k]])

MetricIndex(metric) == CHOOSE i \in 1..Len(metrics) : metrics[i] = metric

RECURSIVE set_positions_using_metric(_, _, _, _, _, _)
set_positions_using_metric(gs, teams_to_sort, positions_to_fill, metric, rng, depth) ==
    IF Len(teams_to_sort) # Len(positions_to_fill)
    THEN Outcome(gs, "RuntimeError", depth)
    ELSE IF metric = "random"
    THEN fill_positions(gs, shuffle(teams_to_sort, rng), positions_to_fill, 1, depth)
    ELSE IF metric = "head-to-head"
    THEN IF Len(teams_to_sort) > 2
         THEN set_positions_using_metric(gs, teams_to_sort, positions_to_fill,
                                         "random", rng, depth + 1)
         ELSE IF Len(teams_to_sort) < 2
         THEN Outcome(gs, "IndexError", depth)
         ELSE With(find_head_to_head_winner(gs, teams_to_sort[1], teams_to_sort[2]),
                   LAMBDA w :
                IF w.fault # "none" THEN Outcome(gs, w.fault, depth)
                ELSE IF w.team_1 # None /\ w.team_2 # None
                THEN fill_positions(gs, <<Get(w.team_1), Get(w.team_2)>>,
                                    positions_to_fill, 1, depth)
                ELSE set_positions_using_metric(gs, teams_to_sort, positions_to_fill,
                                                "random", rng, depth + 1))
    ELSE With(team_dict(gs, teams_to_sort), LAMBDA d :
        IF d.fault # "none" THEN Outcome(gs, d.fault, depth)
        ELSE
        LET team_scores == sort_teams_by(d.items, metric)
            team_list == Array([i \in 1..Len(team_scores) |-> team_scores[i].team])
            new_metric == metrics[MetricIndex(metric) + 1]
            score(i) == team_scores[i].entry[metric]
            \* fill_standings_position(team_list[i], position), first call of a branch
            fill(g0, i, position) ==
                With(fill_standings_position(g0, team_list[i], position), LAMBDA r :
                    Outcome(r.gs, r.fault, depth))
            \* the call again on team_list[a..b] with the next metric
            again(g0, a, b) ==
                set_positions_using_metric(g0, SubSeq(team_list, a, b),
                                           SubSeq(positions_to_fill, a, b),
                                           new_metric, rng, depth + 1)
            pos(i) == positions_to_fill[i]
        IN  IF Len(team_list) = 2
            THEN IF score(1) > score(2)
                 THEN Then(fill(gs, 1, pos(1)), LAMBDA g1 : fill(g1, 2, pos(2)))
                 ELSE again(gs, 1, 2)
            ELSE IF Len(team_list) = 3
            THEN IF score(1) > score(2) /\ score(2) > score(3)
                 THEN Then(Then(fill(gs, 1, pos(1)), LAMBDA g1 : fill(g1, 2, pos(2))),
                           LAMBDA g2 : fill(g2, 3, pos(3)))
                 ELSE IF score(1) > score(2) /\ score(2) = score(3)
                 THEN Then(fill(gs, 1, pos(1)), LAMBDA g1 : again(g1, 2, 3))
                 ELSE IF score(1) = score(2) /\ score(2) > score(3)
                 THEN Then(fill(gs, 3, pos(3)), LAMBDA g1 : again(g1, 1, 2))
                 ELSE again(gs, 1, 3)
            ELSE IF Len(team_list) = 4
            THEN IF score(1) > score(2) /\ score(2) > score(3) /\ score(3) > score(4)
                 THEN Then(Then(Then(fill(gs, 1, "1st"), LAMBDA g1 : fill(g1, 2, "2nd")),
                                LAMBDA g2 : fill(g2, 3, "3rd")),
                           LAMBDA g3 : fill(g3, 4, "4th"))
                 ELSE IF score(1) = score(2) /\ score(2) > score(3) /\ score(3) > score(4)
                 THEN Then(Then(fill(gs, 3, "3rd"), LAMBDA g1 : fill(g1, 4, "4th")),
                           LAMBDA g2 : again(g2, 1, 2))
                 ELSE IF score(1) > score(2) /\ score(2) = score(3) /\ score(3) > score(4)
                 THEN Then(Then(fill(gs, 1, "1st"), LAMBDA g1 : fill(g1, 4, "4th")),
                           LAMBDA g2 : again(g2, 2, 3))
                 ELSE IF score(1) > score(2) /\ score(2) > score(3) /\ score(3) = score(4)
                 THEN Then(Then(fill(gs, 1, "1st"), LAMBDA g1 : fill(g1, 2, "2nd")),
                           LAMBDA g2 : again(g2, 3, 4))
                 ELSE IF score(1) = score(2) /\ score(2) = score(3) /\ score(3) > score(4)
                 THEN Then(fill(gs, 4, "4th"), LAMBDA g1 : again(g1, 1, 3))
                 ELSE IF score(1) > score(2) /\ score(2) = score(3) /\ score(3) = score(4)
                 THEN Then(fill(gs, 1, "1st"), LAMBDA g1 : again(g1, 2, 4))
                 ELSE IF score(1) = score(2) /\ score(2) > score(3) /\ score(3) = score(4)
                 THEN Then(again(gs, 1, 2), LAMBDA g1 : again(g1, 3, 4))
                 ELSE again(gs, 1, 4)
            ELSE Outcome(gs, "none", depth))

\* ------------------------------------------------ direct calls on one Group
GroupState(g) == [results |-> results[g], table |-> table[g], standings |-> standings[g]]

SetGroup(g, gs) ==
    /\ results' = [results EXCEPT ![g] = gs.results]
    /\ table' = [table EXCEPT ![g] = gs.table]
    /\ standings' = [standings EXCEPT ![g] = gs.standings]

DirectGroups == {"A"}

Called(op, g, h2h, team) == [op |-> op, g |-> g, head_to_head |-> h2h, team |-> team]

\* wc_pred.simulate_score over the group-stage rows of fixtures_df
SimulatedScores(seed) ==
    simulate_score(Array([i \in 1..Len(GroupFixtures) |-> GroupFixtures[i].Team_1]),
                   Array([i \in 1..Len(GroupFixtures) |-> GroupFixtures[i].Team_2]),
                   seed, NumSamples)

AddResults(g, seed) ==
    /\ pc = "idle"
    /\ \E all \in {SimulatedScores(seed)} :
            SetGroup(g, [GroupState(g) EXCEPT !.results = Some(add_results(g, all))])
    /\ last' = Called("add_results", g, FALSE, "")
    /\ cascade' = None
    /\ fault' = "none"
    /\ qualifiers' = None
    /\ furthest' = ""
    /\ UNCHANGED <<group_order, tournamentVars>>

CalcTable(g) ==
    /\ pc = "idle"
    /\ \E r \in {CallCalcTable(g, GroupState(g))} :
            SetGroup(g, r.gs) /\ fault' = r.fault
    /\ last' = Called("calc_table", g, FALSE, "")
    /\ cascade' = None
    /\ qualifiers' = None
    /\ furthest' = ""
    /\ UNCHANGED <<group_order, tournamentVars>>

CalcStandings(g, head_to_head, rng) ==
    /\ pc = "idle"
    /\ \E r \in {calc_standings(g, GroupState(g), head_to_head, rng)} :
            SetGroup(g, r.gs) /\ fault' = r.fault
    /\ last' = Called("calc_standings", g, head_to_head, "")
    /\ cascade' = None
    /\ qualifiers' = None
    /\ furthest' = ""
    /\ UNCHANGED <<group_order, tournamentVars>>

GetQualifiers(g, rng) ==
    /\ pc = "idle"
    /\ \E r \in {get_qualifiers(g, GroupState(g), rng)} :
            SetGroup(g, r.gs) /\ fault' = r.fault /\ qualifiers' = r.ret
    /\ last' = Called("get_qualifiers", g, FALSE, "")
    /\ cascade' = None
    /\ furthest' = ""
    /\ UNCHANGED <<group_order, tournamentVars>>

\* The names of the standing slots, best first.
Positions == <<"1st", "2nd", "3rd", "4th">>

\* Arguments of a direct call: 2, 3 or 4 teams of the group and as many slots.
CascadeArgs(g) ==
    {[teams |-> SubSeq(TeamsOf(g), w[1], w[2]), positions |-> SubSeq(Positions, w[1], w[2])] :
        w \in {v \in (1..Len(Positions)) \X (1..Len(Positions)) : v[1] < v[2]}}

\* set_positions_using_metric(teams, positions, "points") called on a group.
SetPositionsUsingMetric(g, args, rng) ==
    /\ pc = "idle"
    /\ \E r \in {set_positions_using_metric(GroupState(g), args.teams, args.positions,
                                            "points", rng, 1)} :
            /\ SetGroup(g, r.gs)
            /\ fault' = r.fault
            /\ cascade' = Some([teams |-> args.teams, positions |-> args.positions,
                                depth |-> r.depth, empty |-> standings[g] = None])
    /\ last' = Called("set_positions_using_metric", g, FALSE, "")
    /\ qualifiers' = None
    /\ furthest' = ""
    /\ UNCHANGED <<group_order, tournamentVars>>

GroupNext ==
    \/ \E g \in DirectGroups, seed \in GroupSeeds : AddResults(g, seed)
    \/ \E g \in DirectGroups : CalcTable(g)
    \/ \E g \in DirectGroups, h \in BOOLEAN, rng \in GroupRngStates : CalcStandings(g, h, rng)
    \/ \E g \in DirectGroups, rng \in GroupRngStates : GetQualifiers(g, rng)

GroupSpec == Init /\ [][GroupNext]_vars

\* A group driven through its table, its default standings and the cascade.
CascadeNext ==
    \/ \E g \in DirectGroups, seed \in GroupSeeds : AddResults(g, seed)
    \/ \E g \in DirectGroups : CalcTable(g)
    \/ \E g \in DirectGroups, rng \in GroupRngStates : CalcStandings(g, FALSE, rng)
    \/ \E g \in DirectGroups, rng \in GroupRngStates :
            \E args \in CascadeArgs(g) : SetPositionsUsingMetric(g, args, rng)

CascadeSpec == Init /\ [][CascadeNext]_vars

\* ------------------------------------------------ Tournament.play_group_stage
GroupsState == [results |-> results, table |-> table, standings |-> standings]

PutGroup(st, g, gs) ==
    [results |-> [st.results EXCEPT ![g] = gs.results],
     table |-> [st.table EXCEPT ![g] = gs.table],
     standings |-> [st.standings EXCEPT ![g] = gs.standings]]

GroupOf(st, g) ==
    [results |-> st.results[g], table |-> st.table[g], standings |-> st.standings[g]]

RECURSIVE play_group_stage(_, _, _, _, _)
\* for g in self.groups.values(): g.add_results(results); g.calc_standings(...)
\* The first exception ends the loop and reaches the caller.
play_group_stage(order, st, all, head_to_head, rng) ==
    IF order = <<>> THEN [st |-> st, fault |-> "none"]
    ELSE With([GroupOf(st, Head(order)) EXCEPT
                    !.results = Some(add_results(Head(order), all))], LAMBDA added :
         With(calc_standings(Head(order), added, head_to_head, rng), LAMBDA r :
         With(PutGroup(st, Head(order), r.gs), LAMBDA st1 :
            IF r.fault # "none" THEN [st |-> st1, fault |-> r.fault]
            ELSE play_group_stage(Tail(order), st1, all, head_to_head, rng))))

PlayGroupStage(seed, head_to_head, rng) ==
    /\ pc = "idle"
    /\ calls < MaxCalls
    /\ \E all \in {SimulatedScores(seed)} :
       \E st \in {GroupsState} :
       \E r \in {play_group_stage(group_order, st, all, head_to_head, rng)} :
           /\ results' = r.st.results
           /\ table' = r.st.table
           /\ standings' = r.st.standings
           /\ fault' = r.fault
    /\ calls' = calls + 1
    /\ last' = Called("play_group_stage", "", head_to_head, "")
    /\ cascade' = None
    /\ qualifiers' = None
    /\ furthest' = ""
    /\ UNCHANGED <<group_order, aliases, is_complete, winner, pc, ko_seed>>

\* --------------------------------------------- Tournament.play_knockout_stages
\* the stage list with its first two entries exchanged
Stages_swapped == <<"QF", "R16", "SF", "F">>

Stages == <<"R16", "QF", "SF", "F">>

\* self.aliases[name] = column
SetColumn(al, name, column) ==
    (name :> column) @@ al

RECURSIVE assign_qualifiers(_, _, _, _)
\* for g in self.groups.values(): t1, t2 = g.get_qualifiers(); alias "1"+name, "2"+name
assign_qualifiers(order, st, al, rng) ==
    IF order = <<>> THEN [st |-> st, aliases |-> al, fault |-> "none"]
    ELSE With(get_qualifiers(Head(order), GroupOf(st, Head(order)), rng), LAMBDA q :
         With(PutGroup(st, Head(order), q.gs), LAMBDA st1 :
            IF q.fault # "none" THEN [st |-> st1, aliases |-> al, fault |-> q.fault]
            ELSE With(SetColumn(SetColumn(al, "1" \o Head(order), Get(q.ret)[1]),
                                "2" \o Head(order), Get(q.ret)[2]), LAMBDA al1 :
                    assign_qualifiers(Tail(order), st1, al1, rng))))

\* self.aliases[columns].values: one row per sample, one column per fixture.
Values(al, columns) ==
    Array([s \in Samples |-> Array([f \in 1..Len(columns) |-> al[columns[f]][s]])])

\* ndarray.flatten(): row-major.
Flatten(m, ncols) ==
    Array([k \in 1..(Len(m) * ncols) |-> m[((k - 1) \div ncols) + 1][((k - 1) % ncols) + 1]])

\* a reshape that fills column by column (order="F")
Reshape_column_major(flat, nrows, ncols) ==
    Array([r \in 1..nrows |-> Array([c \in 1..ncols |-> flat[(c - 1) * nrows + r]])])

\* ndarray.reshape((nrows, ncols)): row-major.
Reshape(flat, nrows, ncols) ==
    Array([r \in 1..nrows |-> Array([c \in 1..ncols |-> flat[(r - 1) * ncols + c]])])

RECURSIVE SetColumns(_, _, _, _)
\* self.aliases[names] = m: column f of m goes under names[f].
SetColumns(al, names, m, f) ==
    IF f > Len(names) THEN al
    ELSE SetColumns(SetColumn(al, names[f], Array([s \in Samples |-> m[s][f]])),
                    names, m, f + 1)

StageIndex(stage) == CHOOSE i \in 1..Len(Stages) : Stages[i] = stage

\* The winners of one stage, one row per sample, one column per fixture.
stage_results(al, team_1, team_2, seed) ==
    With(Flatten(Values(al, team_1), Len(team_1)), LAMBDA flat_1 :
    With(Flatten(Values(al, team_2), Len(team_2)), LAMBDA flat_2 :
    With(simulate_outcome(flat_1, flat_2, seed), LAMBDA outcome :
        Reshape(outcome, NumSamples, Len(team_1)))))

KnockoutBegin(seed, rng) ==
    /\ pc = "idle"
    /\ calls < MaxCalls
    /\ \E st \in {GroupsState} :
       \E r \in {assign_qualifiers(group_order, st, aliases, rng)} :
           /\ results' = r.st.results
           /\ table' = r.st.table
           /\ standings' = r.st.standings
           /\ aliases' = r.aliases
           /\ fault' = r.fault
           /\ pc' = IF r.fault = "none" THEN Stages[1] ELSE "idle"
    /\ ko_seed' = seed
    /\ calls' = calls + 1
    /\ last' = Called("play_knockout_stages", "", FALSE, "")
    /\ cascade' = None
    /\ qualifiers' = None
    /\ furthest' = ""
    /\ UNCHANGED <<group_order, is_complete, winner>>

\* play_knockout_stages called once more on a tournament that is complete.
KnockoutAgain(seed, rng) ==
    /\ pc = "idle"
    /\ is_complete
    /\ \E st \in {GroupsState} :
       \E r \in {assign_qualifiers(group_order, st, aliases, rng)} :
           /\ results' = r.st.results
           /\ table' = r.st.table
           /\ standings' = r.st.standings
           /\ aliases' = r.aliases
           /\ fault' = r.fault
           /\ pc' = IF r.fault = "none" THEN Stages[1] ELSE "idle"
    /\ ko_seed' = seed
    /\ last' = Called("play_knockout_stages", "", FALSE, "")
    /\ cascade' = None
    /\ qualifiers' = None
    /\ furthest' = ""
    /\ UNCHANGED <<group_order, is_complete, winner, calls>>

\* One iteration of "for stage in [...]".
KnockoutStage ==
    /\ pc \in Range(Stages)
    /\ \E team_1 \in {Array([f \in 1..Len(KnockoutFixtures(pc)) |-> KnockoutFixtures(pc)[f][1]])} :
       \E team_2 \in {Array([f \in 1..Len(KnockoutFixtures(pc)) |-> KnockoutFixtures(pc)[f][2]])} :
           IF ~(Range(team_1) \cup Range(team_2) \subseteq DOMAIN aliases)
           THEN /\ fault' = "KeyError"
                /\ pc' = "idle"
                /\ UNCHANGED <<aliases, winner>>
           ELSE \E res \in {stage_results(aliases, team_1, team_2, ko_seed)} :
                    /\ aliases' = SetColumns(aliases,
                                      Array([f \in 1..Len(team_1) |-> team_1[f] \o team_2[f]]),
                                      res, 1)
                    /\ winner' = IF pc = "F" THEN Some(Flatten(res, Len(team_1))) ELSE winner
                    /\ fault' = "none"
                    /\ pc' = IF StageIndex(pc) < Len(Stages)
                             THEN Stages[StageIndex(pc) + 1] ELSE "end"
    /\ UNCHANGED <<cascade, group_order, groupVars, is_complete, ko_seed, calls, last,
                   qualifiers, furthest>>

\* self.is_complete = True, and the call returns.
KnockoutEnd ==
    /\ pc = "end"
    /\ is_complete' = TRUE
    /\ pc' = "idle"
    /\ UNCHANGED <<cascade, group_order, groupVars, aliases, winner, ko_seed, calls, last,
                   fault, qualifiers, furthest>>

\* --------------------------------- Tournament.get_furthest_position_for_team
\* bool(array): the element of a one-element array, else a ValueError.
Truth(arr) == IF Len(arr) = 1 THEN Some(arr[1]) ELSE None

\* "self.winner == team_name" is an element-wise comparison; "self.aliases.values()"
\* calls an ndarray, a TypeError, so the key-length lookup below it never runs.
get_furthest_position_for_team(team_name) ==
    IF ~is_complete THEN [ret |-> "None", fault |-> "none"]
    ELSE LET is_winner == Truth([k \in 1..Len(Get(winner)) |-> Get(winner)[k] = team_name])
         IN  IF is_winner = None THEN [ret |-> "", fault |-> "ValueError"]
             ELSE IF Get(is_winner) THEN [ret |-> "W", fault |-> "none"]
             ELSE [ret |-> "", fault |-> "TypeError"]

\* The teams asked about: the roster of the first group.
QueryTeams == Range(TeamsOf(GroupNames[1]))

GetFurthestPositionForTeam(team_name) ==
    /\ pc = "idle"
    /\ \E r \in {get_furthest_position_for_team(team_name)} :
            furthest' = r.ret /\ fault' = r.fault
    /\ last' = Called("get_furthest_position_for_team", "", FALSE, team_name)
    /\ cascade' = None
    /\ qualifiers' = None
    /\ UNCHANGED <<group_order, groupVars, tournamentVars>>

Next ==
    \/ \E seed \in Seeds, h \in BOOLEAN, rng \in RngStates : PlayGroupStage(seed, h, rng)
    \/ \E seed \in Seeds, rng \in RngStates : KnockoutBegin(seed, rng)
    \/ KnockoutStage
    \/ KnockoutEnd
    \/ \E team \in QueryTeams : GetFurthestPositionForTeam(team)

Spec == Init /\ [][Next]_vars

\* The group stage, then the knockout stages, once or again.
KnockoutNext ==
    \/ \E seed \in Seeds, rng \in RngStates : PlayGroupStage(seed, FALSE, rng)
    \/ \E seed \in Seeds, rng \in RngStates : KnockoutBegin(seed, rng)
    \/ \E seed \in Seeds, rng \in RngStates : KnockoutAgain(seed, rng)
    \/ KnockoutStage
    \/ KnockoutEnd

KnockoutSpec == Init /\ [][KnockoutNext]_vars

\* Head-to-head requests: through play_group_stage and directly on a group.
HeadToHeadNext ==
    \/ \E seed \in Seeds, h \in BOOLEAN, rng \in RngStates : PlayGroupStage(seed, h, rng)
    \/ \E g \in DirectGroups, h \in BOOLEAN, rng \in GroupRngStates : CalcStandings(g, h, rng)

HeadToHeadSpec == Init /\ [][HeadToHeadNext]_vars

\* ================================================================== claims
TeamIndices(g) == 1..Len(TeamsOf(g))

\* The ranking key of team i in sample s, most significant first.
Key(tbl, i, s) == <<tbl.points[i][s], tbl.goal_difference[i][s], tbl.goals_for[i][s]>>

LexGreater(a, b) ==
    \/ a[1] > b[1]
    \/ a[1] = b[1] /\ a[2] > b[2]
    \/ a[1] = b[1] /\ a[2] = b[2] /\ a[3] > b[3]

\* C1: after calc_standings() with the default policy, in every sample a team
\* whose key (points, goal_difference, goals_for) is lexicographically greater
\* than another's holds the smaller rank number.
C1_RankFollowsKey ==
    \A g \in DirectGroups :
        (last = Called("calc_standings", g, FALSE, "") /\ fault = "none") =>
            \A s \in Samples : \A a, b \in TeamIndices(g) :
                LexGreater(Key(Get(table[g]), a, s), Key(Get(table[g]), b, s)) =>
                    Get(standings[g])[a][s] < Get(standings[g])[b][s]

TeamIndex(g, team) == CHOOSE i \in TeamIndices(g) : TeamsOf(g)[i] = team

\* C2: the first team get_qualifiers() returns has at least the points of every
\* team of the group in that sample, and no team that is not returned has more
\* points than the second returned team.
C2_QualifiersAreTopTwo ==
    \A g \in DirectGroups :
        (last = Called("get_qualifiers", g, FALSE, "") /\ fault = "none") =>
            \A s \in Samples :
                LET pts(team) == Get(table[g]).points[TeamIndex(g, team)][s]
                    first == Get(qualifiers)[1][s]
                    second == Get(qualifiers)[2][s]
                IN  \A i \in TeamIndices(g) :
                        /\ pts(first) >= pts(TeamsOf(g)[i])
                        /\ TeamsOf(g)[i] \notin {first, second} =>
                                pts(TeamsOf(g)[i]) <= pts(second)

\* C3: whenever a group has standings, in every sample they are a bijection
\* between the positions 1..4 and the four teams: every position is held by
\* exactly one team (row) and every team holds exactly one position.
C3_StandingsBijection ==
    \A g \in GroupSet :
        standings[g] # None =>
            /\ Len(Get(standings[g])) = Len(TeamsOf(g))
            /\ \A s \in Samples :
                 /\ \A k \in TeamIndices(g) : Get(standings[g])[k][s] \in TeamIndices(g)
                 /\ \A p \in TeamIndices(g) :
                        Cardinality({k \in TeamIndices(g) : Get(standings[g])[k][s] = p}) = 1

\* Two teams of g fully tied on (points, goal_difference, goals_for) in some sample.
FullTie(g) ==
    \E s \in Samples : \E a, b \in TeamIndices(g) :
        a # b /\ Key(Get(table[g]), a, s) = Key(Get(table[g]), b, s)

C3_Witness ==
    \E g \in GroupSet :
        standings[g] # None /\ table[g] # None /\ FullTie(g) /\ Len(TeamsOf(g)) = 4

\* The columns a stage reads and the column it writes, per fixture.
Slot1(stage, f) == KnockoutFixtures(stage)[f][1]
Slot2(stage, f) == KnockoutFixtures(stage)[f][2]
WinnerColumn(stage, f) == Slot1(stage, f) \o Slot2(stage, f)

\* C4: when a stage is resolved, for every fixture (slot1, slot2) of the stage
\* and every sample s, the value recorded in column slot1+slot2 at s is one of
\* the two teams the columns slot1 and slot2 hold at the same sample s.
C4_WinnerFromSameSampleAndFixture ==
    [][(pc \in Range(Stages) /\ pc' # pc /\ fault' = "none") =>
          \A f \in 1..Len(KnockoutFixtures(pc)) : \A s \in Samples :
              aliases'[WinnerColumn(pc, f)][s] \in
                  {aliases[Slot1(pc, f)][s], aliases[Slot2(pc, f)][s]}]_vars

\* The round of 16 is resolved from slots whose teams differ between the samples.
C4_Witness ==
    /\ pc = "QF"
    /\ \E f \in 1..Len(KnockoutFixtures("R16")) :
         /\ aliases[Slot1("R16", f)][1] # aliases[Slot1("R16", f)][2]
         /\ aliases[Slot2("R16", f)][1] # aliases[Slot2("R16", f)][2]
         /\ aliases[WinnerColumn("R16", f)][1] # aliases[WinnerColumn("R16", f)][2]

FinalColumn == WinnerColumn("F", 1)

\* The stages that come before stage, in the order R16, QF, SF, F.
EarlierStages(stage) ==
    CASE stage = "R16" -> {}
      [] stage = "QF" -> {"R16"}
      [] stage = "SF" -> {"R16", "QF"}
      [] stage = "F" -> {"R16", "QF", "SF"}
      [] stage = "end" -> {"R16", "QF", "SF", "F"}
      [] OTHER -> {}

StageColumnsRecorded(stage) ==
    \A f \in 1..Len(KnockoutFixtures(stage)) : WinnerColumn(stage, f) \in DOMAIN aliases

\* C5: the stages are resolved in the order R16, QF, SF, F, each with the
\* winners of all earlier stages already recorded; is_complete is true only
\* when the Final is resolved and its winners are the winner vector of length
\* S; is_complete turns true only as play_knockout_stages finishes, and a
\* call that faults returns without setting it.
C5_StageOrderAndCompletion ==
    /\ [](/\ \A e \in EarlierStages(pc) : StageColumnsRecorded(e)
          /\ is_complete =>
                /\ winner # None
                /\ Len(Get(winner)) = NumSamples
                /\ FinalColumn \in DOMAIN aliases
                /\ Get(winner) = aliases[FinalColumn])
    /\ [][/\ pc' # pc =>
                \/ <<pc, pc'>> \in {<<"idle", "R16">>, <<"R16", "QF">>, <<"QF", "SF">>,
                                    <<"SF", "F">>, <<"F", "end">>, <<"end", "idle">>}
                \/ pc' = "idle" /\ fault' # "none"
          /\ is_complete' # is_complete =>
                (pc = "end" /\ pc' = "idle" /\ is_complete')]_vars

C5_Witness ==
    /\ is_complete
    /\ pc = "idle"
    /\ Get(winner)[1] # Get(winner)[2]

AliasValues == {aliases[c][s] : c \in DOMAIN aliases, s \in Samples}

\* C6: on a completed tournament get_furthest_position_for_team returns "W" for
\* the recorded winner and "G" for a team that is in no alias column, without a
\* fault.
C6_FurthestWonOrGroup ==
    \A team \in QueryTeams :
        (last = Called("get_furthest_position_for_team", "", FALSE, team) /\ is_complete) =>
            /\ (\A s \in Samples : Get(winner)[s] = team) => furthest = "W"
            /\ team \notin AliasValues => furthest = "G"
            /\ ((\A s \in Samples : Get(winner)[s] = team) \/ team \notin AliasValues) =>
                    fault = "none"

\* C7: a table that is present equals the table derived from the results that
\* are currently stored.
C7_TableNeverStale ==
    \A g \in DirectGroups :
        (table[g] # None /\ results[g] # None) =>
            Get(table[g]) = calc_table(g, Get(results[g]))

\* C8 as stated: calc_standings(head_to_head=True) always ends in the
\* 'not implemented' fault.
C8_AlwaysNotImplemented ==
    \A g \in DirectGroups :
        last = Called("calc_standings", g, TRUE, "") => fault = "NotImplementedError"

\* C8 amended: calc_standings(head_to_head=True) always ends in a fault and
\* leaves the standings as they were: the 'not implemented' fault when the
\* group has a table or stored results, the TypeError of calc_table when it
\* has neither; play_group_stage(head_to_head=True) ends in the 'not
\* implemented' fault with the standings of every group as they were.
C8_HeadToHeadFaults ==
    [][/\ \A g \in DirectGroups :
            (\E rng \in GroupRngStates : CalcStandings(g, TRUE, rng)) =>
                /\ standings' = standings
                /\ fault' = IF table[g] = None /\ results[g] = None
                            THEN "TypeError" ELSE "NotImplementedError"
       /\ (\E seed \in Seeds, rng \in RngStates : PlayGroupStage(seed, TRUE, rng)) =>
                /\ standings' = standings
                /\ fault' = "NotImplementedError"
                /\ \A i \in 2..Len(group_order) :
                        /\ results'[group_order[i]] = results[group_order[i]]
                        /\ table'[group_order[i]] = table[group_order[i]]]_vars

\* A head-to-head request on a group that already has standings.
C8_Witness ==
    \E g \in DirectGroups :
        /\ last = Called("calc_standings", g, TRUE, "")
        /\ fault = "NotImplementedError"
        /\ standings[g] # None

RECURSIVE SumOver(_, _)
SumOver(S, f) ==
    IF S = {} THEN 0
    ELSE LET x == CHOOSE y \in S : TRUE IN f[x] + SumOver(S \ {x}, f)

\* The matches of res that team plays, and its goals in match i, sample s.
Played(res, team) ==
    {i \in 1..Len(res.home_team) : res.home_team[i] = team \/ res.away_team[i] = team}
Scored(res, team, i, s) ==
    IF res.home_team[i] = team THEN res.home_score[i][s] ELSE res.away_score[i][s]
Conceded(res, team, i, s) ==
    IF res.home_team[i] = team THEN res.away_score[i][s] ELSE res.home_score[i][s]
Won(res, team, s) ==
    {i \in Played(res, team) : Scored(res, team, i, s) > Conceded(res, team, i, s)}
Drawn(res, team, s) ==
    {i \in Played(res, team) : Scored(res, team, i, s) = Conceded(res, team, i, s)}

\* C9: after calc_table() every team's points are 3 per match won plus 1 per
\* match drawn in that sample, and its goals_for and goals_against are the sums
\* of the goals it scored and conceded over its home and away matches.
C9_TableFromResults ==
    \A g \in DirectGroups :
        (last = Called("calc_table", g, FALSE, "") /\ fault = "none") =>
            \A t \in TeamIndices(g) : \A s \in Samples :
                LET res == Get(results[g])
                    tbl == Get(table[g])
                    team == TeamsOf(g)[t]
                IN  /\ tbl.points[t][s] =
                            3 * Cardinality(Won(res, team, s)) + Cardinality(Drawn(res, team, s))
                    /\ tbl.goals_for[t][s] =
                            SumOver(Played(res, team),
                                    [i \in Played(res, team) |-> Scored(res, team, i, s)])
                    /\ tbl.goals_against[t][s] =
                            SumOver(Played(res, team),
                                    [i \in Played(res, team) |-> Conceded(res, team, i, s)])

\* A table just computed in which some team has won, drawn and lost a match.
C9_Witness ==
    \E g \in DirectGroups :
        /\ last = Called("calc_table", g, FALSE, "")
        /\ fault = "none"
        /\ \E t \in TeamIndices(g) : \E s \in Samples :
              /\ Won(Get(results[g]), TeamsOf(g)[t], s) # {}
              /\ Drawn(Get(results[g]), TeamsOf(g)[t], s) # {}
              /\ Cardinality(Won(Get(results[g]), TeamsOf(g)[t], s))
                   + Cardinality(Drawn(Get(results[g]), TeamsOf(g)[t], s))
                   < Cardinality(Played(Get(results[g]), TeamsOf(g)[t]))

\* C10: in every table, for every team and sample, goal_difference equals
\* goals_for minus goals_against.
C10_GoalDifference ==
    \A g \in GroupSet :
        table[g] # None =>
            \A t \in TeamIndices(g) : \A s \in Samples :
                Get(table[g]).goal_difference[t][s] =
                    Get(table[g]).goals_for[t][s] - Get(table[g]).goals_against[t][s]

\* A table with a team that conceded more than it scored.
C10_Witness ==
    \E g \in GroupSet :
        /\ table[g] # None
        /\ \E t \in TeamIndices(g) : \E s \in Samples :
              /\ Get(table[g]).goal_difference[t][s] < 0
              /\ Get(table[g]).goals_for[t][s] > 0

\* The team recorded under each given position, when the standings hold them.
PositionsFilled(g, teams, positions) ==
    /\ standings[g] # None
    /\ \A i \in 1..Len(positions) :
          Cardinality({t \in Range(teams) : Get(standings[g])[positions[i]] = t}) = 1
    /\ \A i, j \in 1..Len(positions) :
          i # j => Get(standings[g])[positions[i]] # Get(standings[g])[positions[j]]

\* C11: set_positions_using_metric(teams, positions, "points") on 2, 3 or 4
\* teams of a group that has results and a table, with the given positions
\* empty, nests no deeper than the length of the metrics list, never raises
\* the 'already filled' RuntimeError, and ends with every given position
\* filled by exactly one of the teams.
C11_CascadeFillsPositions ==
    \A g \in DirectGroups :
        (/\ last = Called("set_positions_using_metric", g, FALSE, "")
         /\ cascade # None
         /\ Get(cascade).empty
         /\ results[g] # None
         /\ table[g] # None) =>
            /\ Get(cascade).depth <= Len(metrics)
            /\ fault # "RuntimeError"
            /\ PositionsFilled(g, Get(cascade).teams, Get(cascade).positions)

\* The columns a stage writes.
StageColumns(stage) == {WinnerColumn(stage, f) : f \in 1..Len(KnockoutFixtures(stage))}

\* C12 as stated: every stage adds exactly one new column per fixture, named
\* Team_1 + Team_2, and no column that existed before the stage is removed or
\* changed.
C12_AliasesGrowMonotonically ==
    [][(pc \in Range(Stages) /\ pc' # pc /\ fault' = "none") =>
          /\ StageColumns(pc) \cap DOMAIN aliases = {}
          /\ Cardinality(StageColumns(pc)) = Len(KnockoutFixtures(pc))
          /\ DOMAIN aliases' = DOMAIN aliases \cup StageColumns(pc)
          /\ \A c \in DOMAIN aliases : aliases'[c] = aliases[c]]_vars

\* What holds of C12: in a call on a tournament that is not complete every
\* stage adds its columns as new ones and leaves every earlier column as it
\* was; in a call on a complete tournament no column is removed and no column
\* of another stage or of the qualifiers is changed.
StageWritesItsColumns ==
    [][(pc \in Range(Stages) /\ pc' # pc /\ fault' = "none") =>
          /\ Cardinality(StageColumns(pc)) = Len(KnockoutFixtures(pc))
          /\ DOMAIN aliases' = DOMAIN aliases \cup StageColumns(pc)
          /\ \A c \in DOMAIN aliases \ StageColumns(pc) : aliases'[c] = aliases[c]
          /\ ~is_complete => StageColumns(pc) \cap DOMAIN aliases = {}
          /\ is_complete => StageColumns(pc) \subseteq DOMAIN aliases]_vars

====
